---------------------------- MODULE Spec2Model ----------------------------
(***************************************************************************)
(* Model of the help-desk classifier Telegram bot (src/src/bot.py).        *)
(*                                                                         *)
(* Two parts are modelled:                                                 *)
(*   - the pure pipeline  classify_message -> process_api_response ->      *)
(*     MessageFormatter, as operators over an encoding of the Python/JSON  *)
(*     values the code handles;                                            *)
(*   - the handle_message coroutine, one task per incoming message, as a   *)
(*     state machine whose steps are the stretches of code between two     *)
(*     awaits (HTTP post, reply_to, sleep).                                *)
(*                                                                         *)
(* Python strings are TLA+ strings; the Russian literals of the source are *)
(* transliterated to ASCII, the emoji are written as [ok], [*], ...        *)
(***************************************************************************)
EXTENDS Integers, Sequences, FiniteSets, TLC

VARIABLES
    MAX_RETRIES,  \* config.MAX_RETRIES, read from the environment at start-up
    text,         \* text[t]: message.text of the message task t handles
    pc,           \* pc[t]: where task t's handle_message coroutine stands
    attempt,      \* attempt[t]: the loop variable of "for attempt in range(...)"
    response,     \* response[t]: the local "response" (an APIResponse)
    reply,        \* reply[t]: the local "reply"
    wire,         \* wire[t]: the request body task t's session has in flight
    requests,     \* requests[t]: text fields of the HTTP requests issued so far
    trace,        \* trace[t]: what the task did so far, one event per step
    sleeps,       \* sleeps[t]: the delays slept so far
    sent,         \* sent[t]: the replies delivered to the chat for t's message
    input,        \* pure pipeline: the HTTP outcome under test
    output        \* pure pipeline: what the pipeline made of it

vars == <<MAX_RETRIES, text, pc, attempt, response, reply, wire, requests,
          trace, sleeps, sent, input, output>>

(***************************************************************************)
(* Bounds of the model.                                                    *)
(***************************************************************************)
MaxRetriesBound == 3    \* MAX_RETRIES is drawn from 0..MaxRetriesBound
MaxTextLen == 3         \* message texts have 1..MaxTextLen characters
MaxItems == 2           \* lists and mappings of a payload hold 0..MaxItems entries

(***************************************************************************)
(* Configuration (class Config).  MAX_TEXT_LENGTH is 4096 by default; the  *)
(* model configures 2 so that texts of MaxTextLen characters exceed it.    *)
(***************************************************************************)
MAX_TEXT_LENGTH == 2
RETRY_DELAY == 5

(***************************************************************************)
(* Python values.  A scalar is [t, s]: its type tag and its text.  "absent"*)
(* stands for a key the mapping does not hold.                             *)
(***************************************************************************)
Str(s) == [t |-> "str", s |-> s]
None == [t |-> "null", s |-> ""]
Absent == [t |-> "absent", s |-> ""]
PyTrue == [t |-> "bool", s |-> "True"]
PyFalse == [t |-> "bool", s |-> "False"]

\* bool(v) of a scalar: None, "" and False are falsy
Truthy(v) == \/ v.t = "str" /\ v.s # ""
             \/ v.t = "bool" /\ v.s = "True"

\* str(v), as an f-string renders it
PyStr(v) == IF v.t = "null" THEN "None" ELSE v.s

\* A container is [t, items]: "list", "dict" (items in insertion order),
\* "null" (None), "num" (a non-zero number where a container was expected),
\* or "absent".
List(items) == [t |-> "list", items |-> items]
Dict(items) == [t |-> "dict", items |-> items]
NoneC == [t |-> "null", items |-> <<>>]
AbsentC == [t |-> "absent", items |-> <<>>]
NumC == [t |-> "num", items |-> <<>>]

\* bool(c) of a container
TruthyC(c) == \/ c.t \in {"list", "dict"} /\ c.items # <<>>
              \/ c.t = "num"

\* "for x in c" raises TypeError unless c is iterable
Iterable(c) == c.t \in {"list", "dict"}

\* mapping.get(key): None when the key is absent
Get(v) == IF v.t = "absent" THEN None ELSE v

\* mapping.get(key, []) of a container-valued key
GetOrEmpty(c) == IF c.t = "absent" THEN List(<<>>) ELSE c

\* One element of an attribute list: a mapping that may lack either key.
Attr(name, value) == [name |-> name, value |-> value]

(***************************************************************************)
(* The JSON body of a 200 response: a mapping with the recognised keys, or *)
(* null, or a non-empty array.                                             *)
(***************************************************************************)
Payload(answer, valid, attributes, missing, keywords) ==
    [t |-> "dict", answer |-> answer, valid |-> valid, attributes |-> attributes,
     missingAttributes |-> missing, keywords |-> keywords]

EmptyDict == Payload(Absent, Absent, AbsentC, AbsentC, AbsentC)
JsonNull == [EmptyDict EXCEPT !.t = "null"]
JsonArray == [EmptyDict EXCEPT !.t = "list"]

(***************************************************************************)
(* class APIResponse: "self.data = data or {}".                            *)
(***************************************************************************)
APIResponse(success, data, error) ==
    [success |-> success,
     data |-> IF data.t = "null" THEN EmptyDict ELSE data,
     error |-> error]

(***************************************************************************)
(* The outcome of one HTTP exchange, as classify_message sees it.          *)
(***************************************************************************)
Timeout == [kind |-> "timeout", status |-> 0, body |-> "", parses |-> FALSE,
            json |-> EmptyDict]
Fault(desc) == [kind |-> "fault", status |-> 0, body |-> desc, parses |-> FALSE,
                json |-> EmptyDict]
Http(status, body) == [kind |-> "response", status |-> status, body |-> body,
                       parses |-> FALSE, json |-> EmptyDict]
HttpJson(status, json) == [kind |-> "response", status |-> status, body |-> "{..}",
                           parses |-> TRUE, json |-> json]

TimeoutError == "Prevysheno vremya ozhidaniya otveta"
JSONDecodeError == "Expecting value: line 1 column 1 (char 0)"

\* the last MAX_TEXT_LENGTH characters instead of the first
TruncateTail(txt) ==
    IF Len(txt) > MAX_TEXT_LENGTH
    THEN SubSeq(txt, Len(txt) - MAX_TEXT_LENGTH + 1, Len(txt)) ELSE txt

\* text[:config.MAX_TEXT_LENGTH] when the text is longer
Truncate(txt) ==
    IF Len(txt) > MAX_TEXT_LENGTH THEN SubSeq(txt, 1, MAX_TEXT_LENGTH) ELSE txt

\* the JSON body classify_message posts
RequestBody(txt) ==
    [text |-> Truncate(txt), name |-> None, topic |-> None, generate_answer |-> PyTrue]

NoResponse == APIResponse(FALSE, JsonNull, None)

\* what a call of classify_message gives: an APIResponse, or an exception
\* that leaves it
Returned(resp) == [exc |-> "", resp |-> resp]
Escaped(exc) == [exc |-> exc, resp |-> NoResponse]

\* the text of the error of a non-200 response
StatusError(o) == "API vernul status " \o ToString(o.status) \o ": " \o o.body

\* APIClient.classify_message, from the HTTP outcome o of its session.post
classify_message_uncaught(o) ==
    CASE o.kind = "timeout" -> Returned(APIResponse(FALSE, JsonNull, Str(TimeoutError)))
      [] o.kind = "fault" -> Escaped(o.body)
      [] OTHER ->
            IF o.status = 200
            THEN IF o.parses
                 THEN Returned(APIResponse(TRUE, o.json, None))
                 ELSE Escaped(JSONDecodeError)
            ELSE Returned(APIResponse(FALSE, JsonNull, Str(StatusError(o))))

classify_message(o) ==
    CASE o.kind = "timeout" -> Returned(APIResponse(FALSE, JsonNull, Str(TimeoutError)))
      [] o.kind = "fault" -> Returned(APIResponse(FALSE, JsonNull, Str(o.body)))
      [] OTHER ->
            IF o.status = 200
            THEN IF o.parses
                 THEN Returned(APIResponse(TRUE, o.json, None))
                 ELSE Returned(APIResponse(FALSE, JsonNull, Str(JSONDecodeError)))
            ELSE Returned(APIResponse(FALSE, JsonNull, Str(StatusError(o))))

(***************************************************************************)
(* What a call gives: a returned string, or the exception it raised.       *)
(***************************************************************************)
Return(str) == [exc |-> "", reply |-> str]
Raise(exc) == [exc |-> exc, reply |-> ""]

(***************************************************************************)
(* class MessageFormatter.                                                 *)
(***************************************************************************)
\* attr_names of format_successful_classification
AttrNamesClassified ==
    [equipment_type |-> "Tip oborudovaniya",
     failure_point |-> "Tip neispravnosti",
     serial_number |-> "Seriynyy nomer"]

\* attr_names of format_missing_info
AttrNamesMissing ==
    [equipment_type |-> "tip oborudovaniya",
     failure_point |-> "tip neispravnosti",
     serial_number |-> "seriynyy nomer"]

\* attr_names.get(key, key), rendered in an f-string
Localized(table, key) ==
    IF key.t = "str" /\ key.s \in DOMAIN table THEN table[key.s] ELSE PyStr(key)

\* attr['name'] and attr['value'] raise KeyError on an element lacking the key
WellKeyed(items) ==
    \A i \in 1..Len(items) : items[i].name.t # "absent" /\ items[i].value.t # "absent"

\* the attribute lines in reverse order
RECURSIVE AttrLinesReversed(_, _, _)
AttrLinesReversed(items, table, bullet) ==
    IF items = <<>> THEN ""
    ELSE AttrLinesReversed(Tail(items), table, bullet)
         \o bullet \o Localized(table, Head(items).name) \o ": "
         \o PyStr(Head(items).value) \o "\n"

\* the lines "<bullet><name>: <value>\n", one per attribute, in list order
RECURSIVE AttrLines(_, _, _)
AttrLines(items, table, bullet) ==
    IF items = <<>> THEN ""
    ELSE bullet \o Localized(table, Head(items).name) \o ": "
         \o PyStr(Head(items).value) \o "\n"
         \o AttrLines(Tail(items), table, bullet)

\* ', '.join(keywords): TypeError unless every item is a str
AllStr(items) == \A i \in 1..Len(items) : items[i].t = "str"

RECURSIVE Join(_)
Join(items) ==
    IF items = <<>> THEN ""
    ELSE IF Len(items) = 1 THEN Head(items).s
    ELSE Head(items).s \o ", " \o Join(Tail(items))

\* the missing attributes under their raw keys
RECURSIVE MissingLinesRaw(_)
MissingLinesRaw(items) ==
    IF items = <<>> THEN ""
    ELSE "- " \o PyStr(Head(items)) \o "\n" \o MissingLinesRaw(Tail(items))

\* the lines "- <readable name>\n", one per missing attribute
RECURSIVE MissingLines(_)
MissingLines(items) ==
    IF items = <<>> THEN ""
    ELSE "- " \o Localized(AttrNamesMissing, Head(items)) \o "\n"
         \o MissingLines(Tail(items))

SuccessHeader == "[ok] Zayavka uspeshno klassifitsirovana:\n\n"
KeywordsLabel == "\n[key] Klyuchevye slova: "
MissingHeader == "[!] Dlya obrabotki zayavki trebuetsya dopolnitel'naya informatsiya\n\n"
RecognizedLabel == "[v] Uzhe raspoznano:\n"
ClarifyLabel == "[!!] Pozhaluysta, utochnite:\n"

format_successful_classification(attributes, keywords) ==
    IF ~Iterable(attributes) THEN Raise("TypeError")
    ELSE IF ~WellKeyed(attributes.items) THEN Raise("KeyError")
    ELSE IF TruthyC(keywords) /\ (~Iterable(keywords) \/ ~AllStr(keywords.items))
         THEN Raise("TypeError")
    ELSE Return(SuccessHeader
                \o AttrLines(attributes.items, AttrNamesClassified, "[*] ")
                \o (IF TruthyC(keywords)
                    THEN KeywordsLabel \o Join(keywords.items) ELSE ""))

format_missing_info(missing_attrs, recognized_attrs) ==
    IF TruthyC(recognized_attrs) /\ ~Iterable(recognized_attrs) THEN Raise("TypeError")
    ELSE IF TruthyC(recognized_attrs) /\ ~WellKeyed(recognized_attrs.items)
         THEN Raise("KeyError")
    ELSE IF ~Iterable(missing_attrs) THEN Raise("TypeError")
    ELSE Return(MissingHeader
                \o (IF TruthyC(recognized_attrs)
                    THEN RecognizedLabel
                         \o AttrLines(recognized_attrs.items, AttrNamesMissing, "- ")
                         \o "\n"
                    ELSE "")
                \o ClarifyLabel
                \o MissingLines(missing_attrs.items))

(***************************************************************************)
(* process_api_response.                                                   *)
(***************************************************************************)
ApiErrorApology ==
    "Proizoshla oshibka pri obrabotke zayavki. Pozhaluysta, poprobuyte pozzhe."

\* the comprehension without its "if value is not None"
FromMappingKeepNull(items) == items

\* the list comprehension over data['attributes'].items()
FromMapping(items) == SelectSeq(items, LAMBDA a : a.value.t # "null")

\* data['attributes'] after "if isinstance(data.get('attributes'), dict)"
Normalize(attributes) ==
    IF attributes.t = "dict" THEN List(FromMapping(attributes.items)) ELSE attributes

\* "if data.get('answer')": the pass-through answer is taken
HasAnswerAndValid(data) == Truthy(Get(data.answer)) /\ Truthy(Get(data.valid))

HasAnswer(data) == Truthy(Get(data.answer))

\* the branch taken whenever 'valid' holds a value, false included
IsValidPresent(data) == data.valid.t \notin {"absent", "null"}

\* "if data.get('valid')"
IsValid(data) == Truthy(Get(data.valid))

\* the formatter call the branches of lines 141-161 select and its arguments
NoOutcome ==
    [kind |-> "none", answer |-> "", attributes |-> AbsentC,
     missing |-> AbsentC, keywords |-> AbsentC]

Outcome(data) ==
    IF HasAnswer(data)
    THEN [NoOutcome EXCEPT !.kind = "answer", !.answer = data.answer.s]
    ELSE IF IsValid(data)
    THEN [NoOutcome EXCEPT !.kind = "classified",
                           !.attributes = GetOrEmpty(Normalize(data.attributes)),
                           !.keywords = GetOrEmpty(data.keywords)]
    ELSE [NoOutcome EXCEPT !.kind = "incomplete",
                           !.missing = GetOrEmpty(data.missingAttributes),
                           !.attributes = GetOrEmpty(Normalize(data.attributes))]

\* the return statement of the selected branch
Format(o) ==
    IF o.kind = "answer" THEN Return(o.answer)
    ELSE IF o.kind = "classified"
         THEN format_successful_classification(o.attributes, o.keywords)
         ELSE format_missing_info(o.missing, o.attributes)

\* a Failure result whose reason is returned to the caller
process_api_response_leaky(resp) ==
    IF ~resp.success THEN Return(resp.error.s)
    ELSE IF resp.data.t # "dict" THEN Raise("AttributeError")
    ELSE Format(Outcome(resp.data))

process_api_response(resp) ==
    IF ~resp.success THEN Return(ApiErrorApology)
    ELSE IF resp.data.t # "dict" THEN Raise("AttributeError")
    ELSE Format(Outcome(resp.data))

(***************************************************************************)
(* The inputs the model draws.                                             *)
(***************************************************************************)
SeqsUpTo(S, n) == UNION {[1..k -> S] : k \in 0..n}

Chars == {"a", "b"}
Texts == SeqsUpTo(Chars, MaxTextLen) \ {<<>>}

\* the values each recognised key of a payload takes: absent, null, of the
\* declared type, and (attributes) of another shape
Answers == {Absent, None, Str(""), Str("Gotovyy otvet")}
Valids == {Absent, None, PyTrue, PyFalse}

AttrKeys == {"equipment_type", "serial_number"}
MappingItems == {Attr(Str(k), v) : k \in AttrKeys, v \in {Str("ABC123"), None}}
DistinctKeys(items) ==
    \A i, j \in 1..Len(items) : items[i].name = items[j].name => i = j
Mappings == {Dict(items) : items \in {s \in SeqsUpTo(MappingItems, MaxItems) : DistinctKeys(s)}}

\* list elements: a known key, an unknown key with a null value, and
\* elements lacking 'name' or 'value'
ListElems ==
    {Attr(Str("equipment_type"), Str("noutbuk")), Attr(Str("vendor"), None),
     Attr(Absent, Str("HP")), Attr(Str("serial_number"), Absent)}
AttributeValues(n) ==
    {AbsentC, NoneC, NumC} \cup Mappings
    \cup {List(items) : items \in SeqsUpTo(ListElems, n)}

MissingValues(n) ==
    {AbsentC, NoneC}
    \cup {List(items) : items \in SeqsUpTo({Str("serial_number"), Str("vendor")}, n)}

KeywordValues(n) ==
    {AbsentC, NoneC}
    \cup {List(items) : items \in SeqsUpTo({Str("ekran"), None}, n)}

\* the JSON bodies whose lists hold up to n entries
Payloads(n) ==
    {Payload(a, v, at, m, k) : a \in Answers, v \in Valids, at \in AttributeValues(n),
                               m \in MissingValues(n), k \in KeywordValues(n)}
    \cup {JsonNull, JsonArray}

\* payloads the API serves to the message handler: a ready answer, a
\* classified request, an incomplete one, and two shapes the normalizer
\* does not expect (a top-level array, a null missingAttributes)
AnswerPayload == Payload(Str("Gotovyy otvet"), PyTrue, AbsentC, AbsentC, AbsentC)
ClassifiedPayload ==
    Payload(Absent, PyTrue,
            Dict(<<Attr(Str("serial_number"), Str("ABC123")),
                   Attr(Str("equipment_type"), None)>>),
            AbsentC, List(<<Str("ekran")>>))
IncompletePayload ==
    Payload(None, PyFalse, List(<<>>), List(<<Str("serial_number")>>), AbsentC)
NullMissingPayload == Payload(Absent, PyFalse, AbsentC, NoneC, AbsentC)

HandlerPayloads ==
    {AnswerPayload, ClassifiedPayload, IncompletePayload, NullMissingPayload, JsonArray}

\* what one HTTP exchange of the handler can come to
HttpOutcomes ==
    {Timeout, Fault("Connection reset by peer"),
     Http(500, "Internal Server Error"), Http(200, "<html>")}
    \cup {HttpJson(200, p) : p \in HandlerPayloads}

(***************************************************************************)
(* handle_message, one coroutine per task t.                               *)
(*   pc = "idle"     the message is delivered, the handler not yet run     *)
(*        "await"    inside classify_message, awaiting session.post        *)
(*        "reply"    awaiting bot.reply_to(message, reply)                 *)
(*        "sleep"    awaiting asyncio.sleep(config.RETRY_DELAY)            *)
(*        "apology"  awaiting bot.reply_to(message, <apology>)             *)
(*        "done"     the handler returned                                  *)
(*        "raised"   an exception left the handler                         *)
(* bot.reply_to either delivers the reply and returns, or raises with      *)
(* nothing delivered.                                                      *)
(***************************************************************************)
ExhaustedApology ==
    "Izvinite, proizoshla oshibka pri obrabotke vashego soobshcheniya. "
    \o "Pozhaluysta, poprobuyte pozzhe."

Tasks == DOMAIN pc

\* One entry of the history of a task: what happened, in which iteration
\* (attempt number = iteration + 1), and for the return of a Client call
\* how its HTTP exchange ended ("timeout", "fault" or "response").
\*   "post"           classify_message issued its HTTP request
\*   "success"        the call returned a Success result, a reply was made
\*   "failure"        the call returned a Failure result, a reply was made
\*   "client_fault"   an exception left classify_message
\*   "process_fault"  the call returned, process_api_response raised
\*   "reply_sent"     reply_to(message, reply) delivered the reply
\*   "reply_fault"    reply_to(message, reply) raised
\*   "sleep"          the retry delay was slept
\*   "apology_sent"   reply_to(message, <apology>) delivered the apology
\*   "apology_fault"  reply_to(message, <apology>) raised
Event(kind, n, http) == [ev |-> kind, attempt |-> n, http |-> http]

Log(t, kind, http) == [trace EXCEPT ![t] = Append(@, Event(kind, attempt[t], http))]

\* the assignment "response = ..." of task t
StoreResponse(t, r) == [response EXCEPT ![t] = r]

\* the assignment "reply = ..." of task t
StoreReplyShared(t, r) == [u \in DOMAIN reply |-> r]

StoreReply(t, r) == [reply EXCEPT ![t] = r]

\* "for attempt in range(config.MAX_RETRIES)" reaching iteration n: the body
\* runs up to the post of classify_message, or the loop is over
LoopHead(t, n, history) ==
    IF n < MAX_RETRIES
    THEN /\ attempt' = [attempt EXCEPT ![t] = n]
         /\ wire' = [wire EXCEPT ![t] = <<RequestBody(text[t])>>]
         /\ requests' = [requests EXCEPT ![t] = Append(@, RequestBody(text[t]).text)]
         /\ trace' = [trace EXCEPT ![t] = Append(history, Event("post", n, ""))]
         /\ pc' = [pc EXCEPT ![t] = "await"]
    ELSE /\ pc' = [pc EXCEPT ![t] = "done"]
         /\ trace' = [trace EXCEPT ![t] = history]
         /\ UNCHANGED <<attempt, wire, requests>>

\* "break": the loop is left, the handler returns
NoBreak(t, history) == LoopHead(t, attempt[t] + 1, history)

Break(t, history) ==
    /\ pc' = [pc EXCEPT ![t] = "done"]
    /\ trace' = [trace EXCEPT ![t] = history]
    /\ UNCHANGED <<attempt, wire, requests>>

\* "except Exception as e": the last attempt apologises, the others sleep
ExceptBranch(t) ==
    IF attempt[t] = MAX_RETRIES - 1 THEN "apology" ELSE "sleep"

\* the handler is entered and runs to its first await
Start(t) ==
    /\ pc[t] = "idle"
    /\ LoopHead(t, 0, trace[t])
    /\ UNCHANGED <<MAX_RETRIES, text, response, reply, sleeps, sent, input, output>>

\* session.post completes one way or another; classify_message returns and
\* process_api_response runs
ClassifyReturn(t) ==
    /\ pc[t] = "await"
    /\ wire[t] # <<>>
    /\ \E o \in HttpOutcomes :
          LET c == classify_message(o)
              p == process_api_response(c.resp)
          IN  /\ wire' = [wire EXCEPT ![t] = <<>>]
              /\ IF c.exc # ""
                 THEN /\ pc' = [pc EXCEPT ![t] = ExceptBranch(t)]
                      /\ trace' = Log(t, "client_fault", o.kind)
                      /\ UNCHANGED <<response, reply>>
                 ELSE /\ response' = StoreResponse(t, c.resp)
                      /\ IF p.exc = ""
                         THEN /\ reply' = StoreReply(t, p.reply)
                              /\ pc' = [pc EXCEPT ![t] = "reply"]
                              /\ trace' = Log(t, IF c.resp.success THEN "success"
                                                 ELSE "failure", o.kind)
                         ELSE /\ pc' = [pc EXCEPT ![t] = ExceptBranch(t)]
                              /\ trace' = Log(t, "process_fault", o.kind)
                              /\ UNCHANGED reply
    /\ UNCHANGED <<MAX_RETRIES, text, attempt, requests, sleeps, sent, input, output>>

\* "await bot.reply_to(message, reply)" then "break"
ReplyTo(t) ==
    /\ pc[t] = "reply"
    /\ \/ /\ sent' = [sent EXCEPT ![t] = Append(@, reply[t])]
          /\ Break(t, Append(trace[t], Event("reply_sent", attempt[t], "")))
       \/ /\ pc' = [pc EXCEPT ![t] = ExceptBranch(t)]
          /\ trace' = Log(t, "reply_fault", "")
          /\ UNCHANGED <<sent, attempt, wire, requests>>
    /\ UNCHANGED <<MAX_RETRIES, text, response, reply, sleeps, input, output>>

\* "await asyncio.sleep(config.RETRY_DELAY)" and the next iteration
Sleep(t) ==
    /\ pc[t] = "sleep"
    /\ sleeps' = [sleeps EXCEPT ![t] = Append(@, RETRY_DELAY)]
    /\ LoopHead(t, attempt[t] + 1, Append(trace[t], Event("sleep", attempt[t], "")))
    /\ UNCHANGED <<MAX_RETRIES, text, response, reply, sent, input, output>>

\* "await bot.reply_to(message, <apology>)" of the last attempt
ReplyApology(t) ==
    /\ pc[t] = "apology"
    /\ \/ /\ sent' = [sent EXCEPT ![t] = Append(@, ExhaustedApology)]
          /\ LoopHead(t, attempt[t] + 1,
                      Append(trace[t], Event("apology_sent", attempt[t], "")))
       \/ /\ pc' = [pc EXCEPT ![t] = "raised"]
          /\ trace' = Log(t, "apology_fault", "")
          /\ UNCHANGED <<sent, attempt, wire, requests>>
    /\ UNCHANGED <<MAX_RETRIES, text, response, reply, sleeps, input, output>>

NoInput == Timeout
NoOutput ==
    [ran |-> FALSE, call |-> Returned(NoResponse), outcome |-> NoOutcome,
     result |-> Return("")]

InitTasks(T) ==
    /\ MAX_RETRIES \in 0..MaxRetriesBound
    /\ text \in [T -> Texts]
    /\ pc = [t \in T |-> "idle"]
    /\ attempt = [t \in T |-> 0]
    /\ response = [t \in T |-> NoResponse]
    /\ reply = [t \in T |-> ""]
    /\ wire = [t \in T |-> <<>>]
    /\ requests = [t \in T |-> <<>>]
    /\ trace = [t \in T |-> <<>>]
    /\ sleeps = [t \in T |-> <<>>]
    /\ sent = [t \in T |-> <<>>]
    /\ input = NoInput
    /\ output = NoOutput

\* one message, one handler
Init == InitTasks({1})

Next ==
    \/ \E t \in Tasks : Start(t)
    \/ \E t \in Tasks : ClassifyReturn(t)
    \/ \E t \in Tasks : ReplyTo(t)
    \/ \E t \in Tasks : Sleep(t)
    \/ \E t \in Tasks : ReplyApology(t)

Spec == Init /\ [][Next]_vars

(***************************************************************************)
(* The pipeline of one attempt on its own, "response = classify_message;   *)
(* reply = process_api_response(response)", over every HTTP outcome and    *)
(* every payload.                                                          *)
(***************************************************************************)
PipelineInputs(n) ==
    {Timeout, Fault("Connection reset by peer"), Fault("Name or service not known"),
     Http(500, "Internal Server Error"), Http(404, "Not Found"), Http(200, "<html>")}
    \cup {HttpJson(200, p) : p \in Payloads(n)}

\* the try body of one attempt, up to the reply
Attempt(o) ==
    LET c == classify_message(o)
    IN  [ran |-> TRUE, call |-> c,
         outcome |-> IF c.exc = "" /\ c.resp.success /\ c.resp.data.t = "dict"
                     THEN Outcome(c.resp.data) ELSE NoOutcome,
         result |-> IF c.exc # "" THEN Raise(c.exc) ELSE process_api_response(c.resp)]

RunPipeline ==
    /\ ~output.ran
    /\ output' = Attempt(input)
    /\ UNCHANGED <<MAX_RETRIES, text, pc, attempt, response, reply, wire, requests,
                   trace, sleeps, sent, input>>

InitPipeline ==
    /\ MAX_RETRIES = 0
    /\ text = <<>>
    /\ pc = <<>>
    /\ attempt = <<>>
    /\ response = <<>>
    /\ reply = <<>>
    /\ wire = <<>>
    /\ requests = <<>>
    /\ trace = <<>>
    /\ sleeps = <<>>
    /\ sent = <<>>
    /\ input \in PipelineInputs(MaxItems)
    /\ output = NoOutput

SpecPipeline == InitPipeline /\ [][RunPipeline]_vars

(***************************************************************************)
(* One call of a formatter of MessageFormatter, on the lists the           *)
(* normalizer hands over.                                                  *)
(***************************************************************************)
\* the three keys with a label, and one without
FormatKeys == {"equipment_type", "failure_point", "serial_number", "vendor"}

\* attributes as the formatters receive them; a list that arrived as a list
\* may hold a null value
FormatAttrs == {Attr(Str(k), Str("X1")) : k \in FormatKeys} \cup {Attr(Str("vendor"), None)}

FormatCalls(n) ==
    {[NoOutcome EXCEPT !.kind = "classified", !.attributes = List(a), !.keywords = List(k)] :
        a \in SeqsUpTo(FormatAttrs, n), k \in SeqsUpTo({Str("ekran"), Str("batareya")}, n)}
    \cup
    {[NoOutcome EXCEPT !.kind = "incomplete", !.missing = List(m), !.attributes = List(a)] :
        m \in SeqsUpTo({Str(k) : k \in FormatKeys}, n), a \in SeqsUpTo(FormatAttrs, n)}

RunFormat ==
    /\ ~output.ran
    /\ output' = [ran |-> TRUE, call |-> Returned(NoResponse), outcome |-> input,
                  result |-> Format(input)]
    /\ UNCHANGED <<MAX_RETRIES, text, pc, attempt, response, reply, wire, requests,
                   trace, sleeps, sent, input>>

InitFormat ==
    /\ MAX_RETRIES = 0
    /\ text = <<>>
    /\ pc = <<>>
    /\ attempt = <<>>
    /\ response = <<>>
    /\ reply = <<>>
    /\ wire = <<>>
    /\ requests = <<>>
    /\ trace = <<>>
    /\ sleeps = <<>>
    /\ sent = <<>>
    /\ input \in FormatCalls(MaxItems)
    /\ output = NoOutput

SpecFormat == InitFormat /\ [][RunFormat]_vars

(***************************************************************************)
(* Two messages handled by two interleaved handlers.                       *)
(***************************************************************************)
\* a short text and one that is truncated
ConcurrentTexts == <<(<<"a">>), (<<"b", "a", "b">>)>>

InitConcurrent ==
    /\ InitTasks({1, 2})
    /\ MAX_RETRIES < MaxRetriesBound
    /\ text = ConcurrentTexts

SpecConcurrent == InitConcurrent /\ [][Next]_vars

(***************************************************************************)
(* Properties.                                                             *)
(***************************************************************************)
Finished(t) == pc[t] \in {"done", "raised"}

\* the entries of t's history whose event is one of kinds
Entries(t, kinds) == {i \in 1..Len(trace[t]) : trace[t][i].ev \in kinds}

\* the Client call returned a result (the reply was made or processing raised)
ResultEvents == {"success", "failure", "process_fault"}

\* the Client call ended, with a result or with an escaping exception
CallEndEvents == ResultEvents \cup {"client_fault"}

\* the attempt ended in the except branch
FaultEvents == {"client_fault", "process_fault", "reply_fault"}

\* C1: when handle_message finishes exactly one reply has been sent, whatever
\* the Client call, the processing and the sends did (here for every
\* MAX_RETRIES >= 1; with MAX_RETRIES = 0 the loop body never runs and no
\* reply is sent either).
C1_ExactlyOneReply ==
    \A t \in Tasks : (MAX_RETRIES >= 1 /\ Finished(t)) => Len(sent[t]) = 1

\* C2: once a Client call has returned a result (Success or Failure) no
\* further Client call and no sleep happens for the message; attempt n+1
\* starts only after an exception left the Client call of attempt n.
C2_RetryOnlyOnClientFault ==
    \A t \in Tasks :
        /\ \A i \in Entries(t, ResultEvents) :
              \A j \in Entries(t, {"post", "sleep"}) : j < i
        /\ \A j \in Entries(t, {"post"}) :
              trace[t][j].attempt >= 1 =>
                  \E i \in Entries(t, {"client_fault"}) :
                      i < j /\ trace[t][i].attempt = trace[t][j].attempt - 1

\* C3: when the first Client call returns a Failure result, the Client is
\* called exactly once, nothing is slept, and the reply the user gets is the
\* API-error apology and nothing else.
C3_CleanFailureNoRetry ==
    \A t \in Tasks :
        (Len(trace[t]) >= 2 /\ trace[t][2].ev = "failure") =>
            /\ Len(requests[t]) = 1
            /\ sleeps[t] = <<>>
            /\ pc[t] # "sleep"
            /\ Finished(t) => sent[t] = <<ApiErrorApology>>

\* C4: when every attempt ended with a fault, the finished handler has made
\* exactly MAX_RETRIES Client calls, slept exactly MAX_RETRIES - 1 times
\* (not after the last attempt), and sent exactly one reply, the exhaustion
\* apology.
C4_RetryExhaustion ==
    \A t \in Tasks :
        (MAX_RETRIES >= 1 /\ Finished(t) /\ Entries(t, {"reply_sent"}) = {}) =>
            /\ Len(requests[t]) = MAX_RETRIES
            /\ Len(sleeps[t]) = MAX_RETRIES - 1
            /\ \A i \in Entries(t, {"sleep"}) : trace[t][i].attempt < MAX_RETRIES - 1
            /\ sent[t] = <<ExhaustedApology>>

\* C5: if attempts 1..k-1 each ended with a fault and attempt k completed
\* (its reply was delivered), then exactly k Client calls were made,
\* RETRY_DELAY was slept exactly k-1 times, once before each attempt after
\* the first, the handler has returned, and the single reply sent is the
\* formatted reply of attempt k's result: never the exhaustion apology, and
\* for a Success result not the API-error apology either.
C5_RetryRecovery ==
    \A t \in Tasks :
        \A i \in Entries(t, {"reply_sent"}) :
            LET k == trace[t][i].attempt + 1
                formatted == process_api_response(response[t])
            IN  /\ k \in 1..MAX_RETRIES
                /\ i = Len(trace[t])
                /\ pc[t] = "done"
                /\ Cardinality(Entries(t, FaultEvents)) = k - 1
                /\ Cardinality(Entries(t, {"post"})) = k
                /\ Len(requests[t]) = k
                /\ sleeps[t] = [n \in 1..(k - 1) |-> RETRY_DELAY]
                /\ \A j \in Entries(t, {"post"}) :
                      trace[t][j].attempt >= 1 => trace[t][j - 1].ev = "sleep"
                /\ \A j \in Entries(t, {"sleep"}) : trace[t][j + 1].ev = "post"
                /\ formatted.exc = ""
                /\ sent[t] = <<formatted.reply>>
                /\ sent[t] # <<ExhaustedApology>>
                /\ response[t].success => sent[t] # <<ApiErrorApology>>

C5_Witness ==
    \E t \in Tasks :
        /\ Entries(t, {"reply_sent"}) # {}
        /\ attempt[t] = 2
        /\ response[t].success
        /\ Len(sleeps[t]) = 2

\* C6: if the HTTP call timed out or failed at connection level on every
\* attempt, MAX_RETRIES HTTP requests have been issued by the time a reply
\* (the apology) reaches the user.
C6_TransportFaultRetried ==
    \A t \in Tasks :
        ( /\ MAX_RETRIES >= 1
          /\ sent[t] # <<>>
          /\ \A i \in Entries(t, CallEndEvents) : trace[t][i].http \in {"timeout", "fault"} )
        => Len(requests[t]) = MAX_RETRIES

\* C7: classify_message always returns an APIResponse and lets no exception
\* escape: a 200 response with a parseable body gives success with the body
\* as data (the empty mapping for a null body, "data or {}"); a non-200
\* status, a timeout, a transport fault and an unparseable 200 body each
\* give a failure with a reason.
C7_ClientAlwaysReturns ==
    output.ran =>
        LET r == output.call.resp
        IN  /\ output.call.exc = ""
            /\ (input.kind = "response" /\ input.status = 200 /\ input.parses) =>
                  /\ r.success
                  /\ r.data = IF input.json.t = "null" THEN EmptyDict ELSE input.json
                  /\ r.error = None
            /\ (input.kind = "response" /\ input.status # 200) =>
                  ~r.success /\ r.error = Str(StatusError(input))
            /\ input.kind = "timeout" => ~r.success /\ r.error = Str(TimeoutError)
            /\ input.kind = "fault" => ~r.success /\ r.error = Str(input.body)
            /\ (input.kind = "response" /\ input.status = 200 /\ ~input.parses) =>
                  ~r.success /\ r.error.t = "str" /\ r.error.s # ""

C7_Witness ==
    /\ output.ran
    /\ input.kind = "response" /\ input.status = 200 /\ ~input.parses
    /\ ~output.call.resp.success

\* C8: no exception raised while a message is handled leaves handle_message.
C8_NoFaultEscapes == \A t \in Tasks : pc[t] # "raised"

\* C9: with two handlers interleaved, every request a task issues carries its
\* own message's text, every reply sent for a message is the exhaustion
\* apology or the formatted reply of the response its own task obtained, and
\* a step of one task leaves the other task's attempt counter, response and
\* reply as they were.
C9_OwnRequestAndReply ==
    \A t \in Tasks :
        /\ \A i \in 1..Len(requests[t]) : requests[t][i] = Truncate(text[t])
        /\ wire[t] # <<>> => wire[t][1].text = Truncate(text[t])
        /\ \A i \in 1..Len(sent[t]) :
              \/ sent[t][i] = ExhaustedApology /\ Entries(t, {"apology_sent"}) # {}
              \/ /\ Entries(t, {"reply_sent"}) # {}
                 /\ sent[t][i] = process_api_response(response[t]).reply

C9_OthersUntouched ==
    \A t \in Tasks :
        pc'[t] = pc[t] =>
            /\ attempt'[t] = attempt[t]
            /\ response'[t] = response[t]
            /\ reply'[t] = reply[t]
            /\ sent'[t] = sent[t]

C9_NoInterference == []C9_OwnRequestAndReply /\ [][C9_OthersUntouched]_vars

C9_Witness ==
    /\ Tasks = {1, 2}
    /\ text[1] # text[2]
    /\ attempt[1] # attempt[2]
    /\ Entries(1, {"reply_sent"}) # {} /\ Entries(2, {"reply_sent"}) # {}
    /\ sent[1] # sent[2]
    /\ trace[1][Len(trace[1])].ev = "reply_sent"

\* C10: for a Success payload with a non-empty answer the reply is that
\* answer verbatim, whatever valid, attributes, missingAttributes and
\* keywords hold.
C10_AnswerVerbatim ==
    ( /\ output.ran
      /\ output.call.exc = "" /\ output.call.resp.success
      /\ output.call.resp.data.t = "dict"
      /\ output.call.resp.data.answer.t = "str"
      /\ output.call.resp.data.answer.s # "" )
    => output.result = Return(output.call.resp.data.answer.s)

C10_Witness ==
    /\ output.ran
    /\ input.kind = "response" /\ input.parses /\ input.json.t = "dict"
    /\ input.json.answer = Str("Gotovyy otvet")
    /\ input.json.valid = None
    /\ input.json.attributes = NumC
    /\ input.json.missingAttributes = NoneC
    /\ input.json.keywords = List(<<None>>)
    /\ output.result.reply = "Gotovyy otvet"

(***************************************************************************)
(* Normalization and defaulting of the payload (SpecPipeline).             *)
(***************************************************************************)
\* the call returned a Success result whose payload is a JSON object
SuccessPayload ==
    /\ output.ran
    /\ output.call.exc = ""
    /\ output.call.resp.success
    /\ input.kind = "response" /\ input.status = 200 /\ input.parses
    /\ input.json.t = "dict"

\* the payload carries no non-empty answer
NoAnswer == input.json.answer.t \in {"absent", "null"} \/ input.json.answer = Str("")

\* C11: for every Success payload without an answer, no attribute handed to
\* a formatter has a null value, whether the attributes arrived as a mapping
\* or as a list.
C11_NoNullHanded ==
    (SuccessPayload /\ NoAnswer /\ output.outcome.attributes.t = "list")
        => \A i \in 1..Len(output.outcome.attributes.items) :
               LET a == output.outcome.attributes.items[i]
               IN  a.value.t # "null"

\* the positions of a mapping's entries whose value is not null
NonNull(items) == {i \in 1..Len(items) : items[i].value.t # "null"}

\* C12: when attributes is a mapping, the list handed on has one element
\* {name, value} per entry whose value is not null, in the mapping's order,
\* and none for the null-valued entries.
C12_MappingNormalized ==
    (SuccessPayload /\ NoAnswer /\ input.json.attributes.t = "dict")
        => LET items == input.json.attributes.items
               out == output.outcome.attributes
           IN  /\ out.t = "list"
               /\ Len(out.items) = Cardinality(NonNull(items))
               /\ \A j \in NonNull(items) :
                      out.items[Cardinality({i \in NonNull(items) : i <= j})]
                          = Attr(items[j].name, items[j].value)
               /\ (items = <<Attr(Str("serial_number"), Str("ABC123")),
                              Attr(Str("equipment_type"), None)>>
                      => out = List(<<Attr(Str("serial_number"), Str("ABC123"))>>))

C12_Witness ==
    /\ SuccessPayload /\ NoAnswer
    /\ input.json.attributes
           = Dict(<<Attr(Str("serial_number"), Str("ABC123")),
                    Attr(Str("equipment_type"), None)>>)
    /\ output.outcome.attributes = List(<<Attr(Str("serial_number"), Str("ABC123"))>>)


\* a container that is absent, null, or a list of strings
StringListOrMissing(c) ==
    \/ c.t \in {"absent", "null"}
    \/ c.t = "list" /\ \A i \in 1..Len(c.items) : c.items[i].t = "str"

\* every optional key of the payload is absent, null, or of its declared
\* type: answer a string, valid a boolean, attributes a mapping of strings
\* to strings (or null) or a list of {name, value} strings, missingAttributes
\* and keywords lists of strings
WellTyped(p) ==
    /\ p.answer.t \in {"absent", "null", "str"}
    /\ p.valid.t \in {"absent", "null", "bool"}
    /\ \/ p.attributes.t \in {"absent", "null"}
       \/ p.attributes.t = "dict"
           /\ \A i \in 1..Len(p.attributes.items) :
                  /\ p.attributes.items[i].name.t = "str"
                  /\ p.attributes.items[i].value.t \in {"str", "null"}
       \/ p.attributes.t = "list"
           /\ \A i \in 1..Len(p.attributes.items) :
                  /\ p.attributes.items[i].name.t = "str"
                  /\ p.attributes.items[i].value.t = "str"
    /\ StringListOrMissing(p.missingAttributes)
    /\ StringListOrMissing(p.keywords)

\* C13: a malformed payload is defaulted, not failed: for every Success
\* payload whose optional keys are each absent, null, or of the declared
\* type, process_api_response returns a reply without raising.
C13_MalformedDefaulted ==
    (SuccessPayload /\ WellTyped(input.json)) => output.result.exc = ""


(***************************************************************************)
(* The request body (Spec).                                                *)
(***************************************************************************)
\* C14: the text field of every request body is the first MAX_TEXT_LENGTH
\* characters of a longer text (length exactly MAX_TEXT_LENGTH) and the
\* text unchanged otherwise; the request in flight carries the same body.
C14_TextTruncated ==
    \A t \in Tasks :
        /\ \A i \in 1..Len(requests[t]) :
               LET sentText == requests[t][i]
               IN  IF Len(text[t]) > MAX_TEXT_LENGTH
                   THEN /\ Len(sentText) = MAX_TEXT_LENGTH
                        /\ \A j \in 1..MAX_TEXT_LENGTH : sentText[j] = text[t][j]
                   ELSE sentText = text[t]
        /\ \A i \in 1..Len(wire[t]) : wire[t][i].text = requests[t][Len(requests[t])]

C14_Witness ==
    \E t \in Tasks :
        /\ text[t] = <<"a", "b", "b">>
        /\ requests[t] # <<>>
        /\ requests[t][1] = <<"a", "b">>


(***************************************************************************)
(* The replies of the formatters (SpecFormat).                             *)
(***************************************************************************)
\* f[1] \o ... \o f[n] of a sequence of strings
RECURSIVE Concat(_)
Concat(f) == IF Len(f) = 0 THEN "" ELSE Concat(SubSeq(f, 1, Len(f) - 1)) \o f[Len(f)]

\* the label of the table for its keys, the raw key for any other name
LabelOf(table, name) == IF name \in DOMAIN table THEN table[name] ELSE name

\* a value as it is printed
ValueText(v) == IF v.t = "null" THEN "None" ELSE v.s

\* C15: format_missing_info renders the header, then a "recognized so far"
\* block exactly when the recognized list is non-empty (one line per
\* attribute), then always the "please clarify" block with one line per
\* missing attribute, in order, under the localized label of
\* equipment_type, failure_point and serial_number and the raw key otherwise.
C15_MissingInfoRendered ==
    (output.ran /\ input.kind = "incomplete")
        => LET rec == input.attributes.items
               miss == input.missing.items
               recLine == [i \in 1..Len(rec) |->
                              "- " \o LabelOf(AttrNamesMissing, rec[i].name.s) \o ": "
                              \o ValueText(rec[i].value) \o "\n"]
               missLine == [i \in 1..Len(miss) |->
                               "- " \o LabelOf(AttrNamesMissing, miss[i].s) \o "\n"]
           IN  output.result
                   = Return(MissingHeader
                            \o (IF rec # <<>>
                                THEN RecognizedLabel \o Concat(recLine) \o "\n" ELSE "")
                            \o ClarifyLabel
                            \o Concat(missLine))

C15_Witness ==
    /\ output.ran /\ input.kind = "incomplete"
    /\ input.attributes = List(<<Attr(Str("equipment_type"), Str("X1"))>>)
    /\ input.missing = List(<<Str("serial_number"), Str("vendor")>>)
    /\ output.result
           = Return(MissingHeader \o RecognizedLabel \o "- tip oborudovaniya: X1\n\n"
                    \o ClarifyLabel \o "- seriynyy nomer\n- vendor\n")

\* C16: format_successful_classification renders the header, then exactly
\* one line "<label>: <value>" per attribute in list order (localized
\* label or raw key), followed by a keywords line exactly when the keyword
\* list is non-empty.
C16_ClassifiedRendered ==
    (output.ran /\ input.kind = "classified")
        => LET attrs == input.attributes.items
               kws == input.keywords.items
               attrLine == [i \in 1..Len(attrs) |->
                               "[*] " \o LabelOf(AttrNamesClassified, attrs[i].name.s)
                               \o ": " \o ValueText(attrs[i].value) \o "\n"]
               kwPart == [i \in 1..Len(kws) |->
                             (IF i > 1 THEN ", " ELSE "") \o kws[i].s]
           IN  output.result
                   = Return(SuccessHeader
                            \o Concat(attrLine)
                            \o (IF kws # <<>>
                                THEN KeywordsLabel \o Concat(kwPart) ELSE ""))

C16_Witness ==
    /\ output.ran /\ input.kind = "classified"
    /\ input.attributes = List(<<Attr(Str("serial_number"), Str("X1")),
                                 Attr(Str("vendor"), Str("X1"))>>)
    /\ input.keywords = List(<<Str("ekran"), Str("batareya")>>)
    /\ output.result
           = Return(SuccessHeader \o "[*] Seriynyy nomer: X1\n[*] vendor: X1\n"
                    \o KeywordsLabel \o "ekran, batareya")


(***************************************************************************)
(* The reply variant (SpecPipeline).                                       *)
(***************************************************************************)
\* a list-valued key as it is handed on: the empty list when the key is
\* absent
Defaulted(c) == IF c.t = "absent" THEN List(<<>>) ELSE c

\* C17: for every Success payload exactly one of the three variants is
\* selected; without a non-empty answer the choice is by valid alone:
\* valid true selects "classified" with the attribute list and the keywords
\* (empty when absent), anything else selects "incomplete" with
\* missingAttributes (empty when absent) and the recognized list.
C17_VariantByValid ==
    SuccessPayload
        => LET p == input.json
               o == output.outcome
               attrs == IF p.attributes.t = "dict" THEN o.attributes.t = "list"
                        ELSE o.attributes = Defaulted(p.attributes)
           IN  /\ o.kind \in {"answer", "classified", "incomplete"}
               /\ o.kind = "answer" <=> ~NoAnswer
               /\ (NoAnswer /\ p.valid = PyTrue)
                      => /\ o.kind = "classified"
                         /\ o.keywords = Defaulted(p.keywords)
                         /\ attrs
               /\ (NoAnswer /\ p.valid \in {PyFalse, Absent, None})
                      => /\ o.kind = "incomplete"
                         /\ o.missing = Defaulted(p.missingAttributes)
                         /\ attrs

C17_Witness ==
    /\ SuccessPayload /\ NoAnswer
    /\ input.json.valid = Absent
    /\ input.json.missingAttributes.t = "absent"
    /\ input.json.attributes = List(<<Attr(Str("equipment_type"), Str("noutbuk"))>>)
    /\ output.outcome.kind = "incomplete"
    /\ output.outcome.missing = List(<<>>)
    /\ output.result.exc = ""


(***************************************************************************)
(* Failure results and the replies they lead to (SpecConcurrent).          *)
(***************************************************************************)
\* the reasons of the Failure results the Client can return
FailureReasons ==
    {classify_message(o).resp.error.s :
        o \in {h \in HttpOutcomes : ~classify_message(h).resp.success}}

\* C18: the reason of a Failure result never reaches the user: any two
\* Failure results, whatever their reasons, get the same fixed API-error
\* apology as reply; that apology is delivered only after a Failure result,
\* the catch-all apology only on the last attempt after that attempt
\* faulted, and every reply that does not follow a Success result is one of
\* these two strings.
C18_FailureReplies ==
    /\ \A t, u \in Tasks :
           (/\ pc[t] = "reply" /\ ~response[t].success
            /\ pc[u] = "reply" /\ ~response[u].success)
               => reply[t] = reply[u] /\ reply[t] = ApiErrorApology
    /\ \A t \in Tasks :
           /\ \A i \in 1..Len(sent[t]) :
                  /\ sent[t][i] \notin FailureReasons
                  /\ sent[t][i] = ExhaustedApology => Entries(t, {"apology_sent"}) # {}
           /\ \A i \in Entries(t, {"reply_sent"}) :
                  /\ trace[t][i - 1].ev \in {"success", "failure"}
                  /\ trace[t][i - 1].ev = "failure" <=> sent[t] = <<ApiErrorApology>>
           /\ \A i \in Entries(t, {"apology_sent"}) :
                  /\ sent[t] = <<ExhaustedApology>>
                  /\ trace[t][i].attempt = MAX_RETRIES - 1
                  /\ trace[t][i - 1].ev \in FaultEvents
                  /\ trace[t][i - 1].attempt = trace[t][i].attempt

C18_Witness ==
    \E t, u \in Tasks :
        /\ t # u
        /\ ~response[t].success /\ ~response[u].success
        /\ response[t].error = Str(TimeoutError)
        /\ response[u].error = Str("Connection reset by peer")
        /\ sent[t] = <<ApiErrorApology>> /\ sent[u] = <<ApiErrorApology>>


(***************************************************************************)
(* The bounds of the retry loop (Spec).                                    *)
(***************************************************************************)
\* the handler returned after delivering the reply (Succeeded) or the
\* catch-all apology (Exhausted)
SucceededOrExhausted(t) ==
    /\ trace[t] # <<>>
    /\ trace[t][Len(trace[t])].ev \in {"reply_sent", "apology_sent"}
    /\ sent[t] # <<>>

\* C19: once the handler runs, the attempt numbers stay within
\* 1..MAX_RETRIES and go up by one from call to call, there are at most
\* MAX_RETRIES Client calls and at most MAX_RETRIES - 1 sleeps, and a handler
\* that returns has ended in Succeeded or Exhausted.
C19_BoundedRetries ==
    \A t \in Tasks :
        pc[t] # "idle"
            => /\ Len(requests[t]) <= MAX_RETRIES
               /\ Len(sleeps[t]) <= MAX_RETRIES - 1
               /\ \A i \in 1..Len(trace[t]) : trace[t][i].attempt + 1 \in 1..MAX_RETRIES
               /\ \A i \in Entries(t, {"post"}) :
                      trace[t][i].attempt + 1
                          = Cardinality({j \in Entries(t, {"post"}) : j <= i})
               /\ pc[t] = "done" => SucceededOrExhausted(t)


(***************************************************************************)
(* What leads to a second attempt (Spec).                                  *)
(***************************************************************************)
\* C20: no exception leaves classify_message, so an attempt after the first,
\* and any sleep, follows a fault of response processing or of the reply
\* send in the attempt before; when processing and sending succeed on the
\* first attempt exactly one HTTP request is issued, however the HTTP
\* exchange ended (200, non-200, timeout, connection fault).
C20_SecondAttemptOnlyAfterFault ==
    \A t \in Tasks :
        /\ Entries(t, {"client_fault"}) = {}
        /\ \A i \in Entries(t, {"sleep"}) :
               /\ trace[t][i - 1].ev \in {"process_fault", "reply_fault"}
               /\ trace[t][i - 1].attempt = trace[t][i].attempt
        /\ \A i \in Entries(t, {"post"}) :
               trace[t][i].attempt >= 1
                   => /\ trace[t][i - 1].ev = "sleep"
                      /\ trace[t][i - 1].attempt = trace[t][i].attempt - 1
        /\ (/\ Len(trace[t]) >= 3
            /\ trace[t][2].ev \in {"success", "failure"}
            /\ trace[t][3].ev = "reply_sent")
               => /\ trace[t][2].http \in {"response", "timeout", "fault"}
                  /\ Len(requests[t]) = 1
                  /\ sleeps[t] = <<>>
                  /\ pc[t] = "done"

C20_Witness ==
    \E t \in Tasks :
        /\ pc[t] = "done"
        /\ Len(trace[t]) = 3
        /\ trace[t][2] = Event("failure", 0, "fault")
        /\ trace[t][3].ev = "reply_sent"
        /\ Len(requests[t]) = 1
        /\ MAX_RETRIES > 1

=============================================================================
